---- MODULE Spec2Model ----
(***************************************************************************)
(* Conway's Game of Life, game_of_life.py: one run of the script from the  *)
(* command line to the exit of the process.  Grid indices are the 0-based  *)
(* indices of the Python lists; a list is a TLA+ sequence, so cell k of a  *)
(* list g is g[k + 1].                                                     *)
(***************************************************************************)
EXTENDS Integers, Sequences, FiniteSets, TLC

VARIABLES
    args,         \* outcome class of getopt on sys.argv: "ok", "help", "badflag", "badvalue"
    size,         \* opts['size'] / self.size
    iterations,   \* opts['iter'] / self.iterations; 0 stands for None (both falsy)
    god,          \* opts['god'] / self.god
    words,        \* content of the file ./gods_word (a sequence of byte values)
    pc,           \* position of the interpreter in the script
    dim,          \* self.dim
    grid,         \* self.grid (class attribute until play rebinds it)
    res,          \* self.res
    i,            \* loop index of the for loop being executed
    generations,  \* local variable of play
    wordsBuf,     \* local variable `words` of initialize_by_gods_word
    counts,       \* lists returned by count_neighbors in the current sweep, in call order
    frames,       \* frames printed in full by display, oldest first
    screen,       \* lines of the frame display is printing, <<>> between frames
    out,          \* text lines printed to stdout other than frames
    err,          \* text written to stderr
    exitcode,     \* <<>> while the process runs, <<status>> once it has exited
    origin,       \* history: for each cell appended during initialize, where it came from
    fileRead,     \* history: ./gods_word has been read
    steps,        \* history: number of grid replacements (line 174)
    sigint,       \* history: SIGINT has been delivered
    run,          \* 1 for the first run of the script, 2 for a second run
    prevInit      \* history: the grid the first run held when its initialize returned

vars == <<args, size, iterations, god, words, pc, dim, grid, res, i, generations,
          wordsBuf, counts, frames, screen, out, err, exitcode, origin, fileRead,
          steps, sigint, run, prevInit>>

config == <<args, size, iterations, god, words>>
pair == <<run, prevInit>>

\* ------------------------------------------------------------------ bounds

MaxSize == 5      \* sizes 1..MaxSize for whole runs (2, 3 and 5 have no integer root)
MaxIter == 2      \* iteration limits 0 (none) .. MaxIter
MaxGen == 3       \* an unlimited run is followed for MaxGen generations
MaxWords == 2     \* length of the byte source
MaxDim == 3       \* side of the square grids the pure functions are applied to
MaxPairSize == 4  \* sizes 1..MaxPairSize for a run followed by a second run
MaxPatternDim == 5 \* side of the square grids started from a known pattern
MaxInstanceSize == 2 \* sizes 1..MaxInstanceSize for two games in one process
MaxInstanceWords == 1 \* length of the byte source of those games
MaxSignals == 2   \* SIGINT is delivered at most MaxSignals times

Bytes == {97, 98}                \* "a" (odd), "b" (even)
RandomValues == {0, 49, 50, 99}  \* random.random() in hundredths

\* ------------------------------------------------------------------ helpers

Min(a, b) == IF a < b THEN a ELSE b

SeqsUpTo(S, n) == UNION {[1..k -> S] : k \in 0..n}

\* int(math.sqrt(n))
ISqrt(n) == CHOOSE d \in 0..n : d * d <= n /\ (d + 1) * (d + 1) > n

\* math.sqrt(n) == int(math.sqrt(n))
HasIntegerRoot(n) == ISqrt(n) * ISqrt(n) = n

\* list.count(True)
CountTrue(s) == Cardinality({j \in 1..Len(s) : s[j]})

\* A Python list subscript g[k]: negative k counts from the end.
IndexOK(g, k) == -Len(g) <= k /\ k < Len(g)
PyGet(g, k) == IF k < 0 THEN g[k + Len(g) + 1] ELSE g[k + 1]

\* ------------------------------------------------------------------ messages

UsageMsg == "usage: game_of_life.py [-n iterations] [-s size of grid (default 1024)]"
InterruptMsg == "You ended the Game of Life"
OverMsg == "The Game of Life is Over"
HelpMsg == "Conway's Game of Life"
RootMsg == "specified size does not have an integer square root. Please choose again"
GetoptErrorMsg == "GetoptError"
ValueErrorMsg == "ValueError"
IndexErrorMsg == "IndexError: list index out of range"
ExceptionMsg == "Exception: list index out of range"

\* ------------------------------------------------------------------ count_neighbors

\* One slot of the list `neighbors`: either the constant False or a read of self.grid.
NoRead == [read |-> FALSE, at |-> 0]
Read(k) == [read |-> TRUE, at |-> k]

\* RowReads without the two column tests: the row is read across the grid's edge.
RowReads_NoEdgeTest(p, d) == <<Read(p - 1), Read(p), Read(p + 1)>>

\* The three slots of the row whose middle cell is p (lines 99-101 and 114-116).
RowReads(p, d) ==
    << IF p % d = 0 THEN NoRead ELSE Read(p - 1),
       Read(p),
       IF (p + 1) % d = 0 THEN NoRead ELSE Read(p + 1) >>

\* The eight slots in the order count_neighbors fills them.
NeighborReads(idx, d, sz) ==
    (IF idx - d < 0 THEN <<NoRead, NoRead, NoRead>> ELSE RowReads(idx - d, d))
    \o << IF idx % d = 0 THEN NoRead ELSE Read(idx - 1) >>
    \o << IF (idx + 1) % d = 0 THEN NoRead ELSE Read(idx + 1) >>
    \o (IF idx + d >= sz THEN <<NoRead, NoRead, NoRead>> ELSE RowReads(idx + d, d))

\* count_neighbors raises IndexError: some subscript is outside the list.
CountRaises(g, idx, d, sz) ==
    LET slots == NeighborReads(idx, d, sz)
    IN  \E j \in 1..8 : slots[j].read /\ ~IndexOK(g, slots[j].at)

\* count_neighbors taking a position outside the grid for an alive cell.
count_neighbors_EdgeAlive(g, idx, d, sz) ==
    LET slots == NeighborReads(idx, d, sz)
    IN  [j \in 1..8 |-> IF slots[j].read THEN PyGet(g, slots[j].at) ELSE TRUE]

\* The list count_neighbors returns when it does not raise.
count_neighbors(g, idx, d, sz) ==
    LET slots == NeighborReads(idx, d, sz)
    IN  [j \in 1..8 |-> IF slots[j].read THEN PyGet(g, slots[j].at) ELSE FALSE]

\* ------------------------------------------------------------------ assess_neighbors

\* Rules with rule 3 keeping a live cell on two neighbours only.
Rules_SurviveOnTwoOnly(alive, c) ==
    IF c \notin {2, 3} THEN FALSE
    ELSE IF alive THEN c = 2
    ELSE c = 3

\* Rules without rule 2: a live cell with more than three neighbours lives on.
Rules_NoOvercrowding(alive, c) ==
    IF alive THEN c >= 2
    ELSE c = 3

\* Rules with rule 4 written like rule 3: a dead cell with two neighbours comes to life.
Rules_DeadLikeAlive(alive, c) ==
    IF c \notin {2, 3} THEN FALSE
    ELSE IF alive THEN c \in {2, 3}
    ELSE c \in {2, 3}

\* Lines 126-132: the rules, on the cell's state and its count c.
Rules(alive, c) ==
    IF c \notin {2, 3} THEN FALSE
    ELSE IF alive THEN c \in {2, 3}
    ELSE c = 3

assess_neighbors(g, idx, d, sz) ==
    Rules(PyGet(g, idx), CountTrue(count_neighbors(g, idx, d, sz)))

\* ------------------------------------------------------------------ display

Glyph(alive) == IF ~alive THEN "." ELSE "*"

\* Line 147 raises when the grid is shorter than self.size.
DisplayRaises(g, sz) == \E k \in 0..(sz - 1) : ~IndexOK(g, k)

\* What display prints: the border width and the rows tmp[i:i + dim].
Frame(g, d, sz) ==
    LET tmp == [k \in 1..sz |-> Glyph(PyGet(g, k - 1))]
        nrows == (sz + d - 1) \div d
    IN  [border |-> d * 2 - 1,
         rows |-> [r \in 1..nrows |-> SubSeq(tmp, (r - 1) * d + 1, Min(r * d, sz))]]

\* The index line 149 prints: the first one line 147 cannot read.
DisplayFails(g, sz) ==
    CHOOSE k \in 0..(sz - 1) : ~IndexOK(g, k) /\ \A j \in 0..(k - 1) : IndexOK(g, j)

\* The lines display prints for a frame, in order (lines 152-158).
ClearLine == <<"\\x1b[2J\\x1b[H">>
FrameLines(g, d, sz) ==
    LET f == Frame(g, d, sz)
    IN  <<ClearLine, <<"+", ToString(f.border), "+">>>> \o f.rows
            \o <<<<"+", ToString(f.border), "+">>>>

\* ------------------------------------------------------------------ initial states

ArgKinds == {"ok", "help", "badflag", "badvalue"}

\* The state of a process that has just loaded the script (class body, lines 46-52).
ProcessStart ==
    /\ pc = "main"
    /\ dim = 0
    /\ grid = <<>>
    /\ res = <<>>
    /\ i = 0
    /\ generations = 0
    /\ wordsBuf = <<>>
    /\ counts = <<>>
    /\ frames = <<>>
    /\ screen = <<>>
    /\ out = <<>>
    /\ err = <<>>
    /\ exitcode = <<>>
    /\ origin = <<>>
    /\ fileRead = FALSE
    /\ steps = 0
    /\ sigint = FALSE

\* The byte source is only varied in the runs that read it.
Init ==
    /\ args \in ArgKinds
    /\ size \in 1..MaxSize
    /\ iterations \in 0..MaxIter
    /\ god \in BOOLEAN
    /\ words \in (IF god THEN SeqsUpTo(Bytes, MaxWords) ELSE {<<97>>})
    /\ ProcessStart
    /\ run = 1
    /\ prevInit = <<>>

\* sys.exit(code), and the exit of the interpreter on an uncaught exception (code 1).
Exit(code) == pc' = "exited" /\ exitcode' = <<code>>

\* ------------------------------------------------------------------ __main__

\* Line 180: signal.signal installs sighandler for SIGINT.
main_signal ==
    /\ pc = "main"
    /\ pc' = "getopt"
    /\ UNCHANGED <<config, out, err, exitcode, dim, grid, res, i, generations, wordsBuf,
                   counts, frames, screen, origin, fileRead, steps, sigint, pair>>

\* Lines 182-195: the options are parsed.  -h prints the title (line 194) and calls
\* usage (line 195); an exception of getopt or of int() is caught at line 197.
main_getopt ==
    /\ pc = "getopt"
    /\ pc' = CASE args = "ok" -> "sanity"
               [] args = "help" -> "usage"
               [] OTHER -> "except"
    /\ out' = IF args = "help" THEN Append(out, HelpMsg) ELSE out
    /\ UNCHANGED <<config, err, exitcode, dim, grid, res, i, generations, wordsBuf,
                   counts, frames, screen, origin, fileRead, steps, sigint, pair>>

\* Lines 197-199: the text of the exception is written to stderr and usage is called.
main_except ==
    /\ pc = "except"
    /\ err' = Append(err, IF args = "badflag" THEN GetoptErrorMsg ELSE ValueErrorMsg)
    /\ pc' = "usage"
    /\ UNCHANGED <<config, out, exitcode, dim, grid, res, i, generations, wordsBuf,
                   counts, frames, screen, origin, fileRead, steps, sigint, pair>>

\* Line 39: usage writes its line to stderr.
usage_write ==
    /\ pc = "usage"
    /\ err' = Append(err, UsageMsg)
    /\ pc' = "usage_exit"
    /\ UNCHANGED <<config, out, exitcode, dim, grid, res, i, generations, wordsBuf,
                   counts, frames, screen, origin, fileRead, steps, sigint, pair>>

\* usage_exit without the sys.exit(1): usage returns and the script goes on to the
\* sanity check.
usage_exit_returns ==
    /\ pc = "usage_exit"
    /\ pc' = "sanity"
    /\ UNCHANGED <<config, out, err, exitcode, dim, grid, res, i, generations, wordsBuf,
                   counts, frames, screen, origin, fileRead, steps, sigint, pair>>

\* Line 40: sys.exit(1).
usage_exit ==
    /\ pc = "usage_exit"
    /\ Exit(1)
    /\ UNCHANGED <<config, out, err, dim, grid, res, i, generations, wordsBuf,
                   counts, frames, screen, origin, fileRead, steps, sigint, pair>>

\* Lines 201-207: the sanity check writes its message and the game is constructed.
main_sanity ==
    /\ pc = "sanity"
    /\ err' = IF HasIntegerRoot(size) THEN err ELSE Append(err, RootMsg)
    /\ pc' = "construct"
    /\ UNCHANGED <<config, dim, grid, res, i, generations, wordsBuf, counts, frames, screen,
                   out, exitcode, origin, fileRead, steps, sigint, pair>>

\* Lines 54-59, 162, 63: __init__ sets dim and calls play, which calls initialize.
GameOfLife_init ==
    /\ pc = "construct"
    /\ dim' = ISqrt(size)
    /\ pc' = IF god THEN "gods_word_read" ELSE "seed"
    /\ UNCHANGED <<config, grid, res, i, generations, wordsBuf, counts, frames, screen, out,
                   err, exitcode, origin, fileRead, steps, sigint, pair>>

\* ------------------------------------------------------------------ initialize_by_gods_word

\* Lines 72-73: read the file.
gods_word_read ==
    /\ pc = "gods_word_read"
    /\ wordsBuf' = words
    /\ fileRead' = TRUE
    /\ pc' = "gods_word_extend"
    /\ UNCHANGED <<config, dim, grid, res, i, generations, counts, frames, screen, out, err,
                   exitcode, origin, steps, sigint, pair>>

\* gods_word_extend padding with the first byte instead of doubling the content.
gods_word_extend_pad ==
    /\ pc = "gods_word_extend"
    /\ IF Len(wordsBuf) < size
         THEN /\ wordsBuf' = (IF wordsBuf = <<>> THEN wordsBuf
                              ELSE Append(wordsBuf, wordsBuf[1]))
              /\ UNCHANGED <<pc, i>>
         ELSE pc' = "gods_word_append" /\ i' = 0 /\ UNCHANGED wordsBuf
    /\ UNCHANGED <<config, dim, grid, res, generations, counts, frames, screen, out, err,
                   exitcode, origin, fileRead, steps, sigint, pair>>

\* Lines 76-77 (and the start of the for loop of line 79): one test of the while loop.
gods_word_extend ==
    /\ pc = "gods_word_extend"
    /\ IF Len(wordsBuf) < size
         THEN wordsBuf' = wordsBuf \o wordsBuf /\ UNCHANGED <<pc, i>>
         ELSE pc' = "gods_word_append" /\ i' = 0 /\ UNCHANGED wordsBuf
    /\ UNCHANGED <<config, dim, grid, res, generations, counts, frames, screen, out, err,
                   exitcode, origin, fileRead, steps, sigint, pair>>

\* Lines 79-80: one round of the for loop; line 66 follows the loop.
gods_word_append ==
    /\ pc = "gods_word_append"
    /\ IF i < size
         THEN /\ grid' = Append(grid, PyGet(wordsBuf, i) % 2 # 0)
              /\ origin' = Append(origin, "word")
              /\ i' = i + 1
              /\ UNCHANGED pc
         ELSE pc' = "seed" /\ UNCHANGED <<grid, origin, i>>
    /\ UNCHANGED <<config, dim, res, generations, wordsBuf, counts, frames, screen, out, err,
                   exitcode, fileRead, steps, sigint, pair>>

\* ------------------------------------------------------------------ initialize

\* Line 66 and the start of the for loop of line 67.
initialize_seed ==
    /\ pc = "seed"
    /\ i' = 0
    /\ pc' = "random"
    /\ UNCHANGED <<config, dim, grid, res, generations, wordsBuf, counts, frames, screen, out,
                   err, exitcode, origin, fileRead, steps, sigint, pair>>

\* initialize_random after which play sweeps before it displays.
initialize_random_sweep_first ==
    /\ pc = "random"
    /\ IF i < size
         THEN /\ \E r \in RandomValues : grid' = Append(grid, r >= 50)
              /\ origin' = Append(origin, "random")
              /\ i' = i + 1
              /\ UNCHANGED <<pc, generations, prevInit>>
         ELSE /\ pc' = "sweep_begin"
              /\ generations' = 0
              /\ prevInit' = IF run = 1 THEN grid ELSE prevInit
              /\ UNCHANGED <<grid, origin, i>>
    /\ UNCHANGED <<config, dim, res, wordsBuf, counts, frames, screen, out, err, exitcode,
                   fileRead, steps, sigint, run>>

\* initialize_random inserting each draw at the front of the list.
initialize_random_insert_front ==
    /\ pc = "random"
    /\ IF i < size
         THEN /\ \E r \in RandomValues : grid' = <<r >= 50>> \o grid
              /\ origin' = <<"random">> \o origin
              /\ i' = i + 1
              /\ UNCHANGED <<pc, generations, prevInit>>
         ELSE /\ pc' = "display"
              /\ generations' = 0
              /\ prevInit' = IF run = 1 THEN grid ELSE prevInit
              /\ UNCHANGED <<grid, origin, i>>
    /\ UNCHANGED <<config, dim, res, wordsBuf, counts, frames, screen, out, err, exitcode,
                   fileRead, steps, sigint, run>>

\* Lines 67-68: one round of the for loop; line 163 follows the loop.
initialize_random ==
    /\ pc = "random"
    /\ IF i < size
         THEN /\ \E r \in RandomValues : grid' = Append(grid, r >= 50)
              /\ origin' = Append(origin, "random")
              /\ i' = i + 1
              /\ UNCHANGED <<pc, generations, prevInit>>
         ELSE /\ pc' = "display"
              /\ generations' = 0
              /\ prevInit' = IF run = 1 THEN grid ELSE prevInit
              /\ UNCHANGED <<grid, origin, i>>
    /\ UNCHANGED <<config, dim, res, wordsBuf, counts, frames, screen, out, err, exitcode,
                   fileRead, steps, sigint, run>>

\* ------------------------------------------------------------------ play

\* Lines 142-152: display builds tmp from the first self.size cells and prints the
\* line that clears the screen.  An IndexError of line 147 is caught: the index is
\* printed (line 149), at the next step an Exception is raised (line 150) that
\* nothing catches, and at the step after it the interpreter has printed the
\* traceback and the process exits with 1.
\* stdout is a terminal whose encoding has the dot U+00B7, so the prints succeed.
play_display ==
    /\ pc \in {"display", "display_raise", "display_traceback"}
    /\ CASE pc = "display_traceback" ->
              /\ err' = Append(err, ExceptionMsg)
              /\ Exit(1)
              /\ UNCHANGED <<out, screen>>
         [] pc = "display_raise" ->
              /\ pc' = "display_traceback"
              /\ UNCHANGED <<out, err, exitcode, screen>>
         [] OTHER ->
              /\ iterations # 0 \/ Len(frames) < MaxGen
              /\ IF DisplayRaises(grid, size)
                   THEN /\ out' = Append(out, ToString(DisplayFails(grid, size)))
                        /\ pc' = "display_raise"
                        /\ UNCHANGED <<err, exitcode, screen>>
                   ELSE /\ screen' = <<ClearLine>>
                        /\ pc' = "display_print"
                        /\ UNCHANGED <<out, err, exitcode>>
    /\ UNCHANGED <<config, dim, grid, res, i, generations, wordsBuf, counts, frames,
                   origin, fileRead, steps, sigint, pair>>

\* Lines 154-158: one print statement: the top border, a row of tmp or the bottom
\* border, which completes the frame.
display_print ==
    /\ pc = "display_print"
    /\ LET lines == FrameLines(grid, dim, size)
       IN  IF Len(screen) + 1 < Len(lines)
             THEN /\ screen' = Append(screen, lines[Len(screen) + 1])
                  /\ UNCHANGED <<frames, pc>>
             ELSE /\ frames' = Append(frames, Frame(grid, dim, size))
                  /\ screen' = <<>>
                  /\ pc' = "sleep"
    /\ UNCHANGED <<config, dim, grid, res, i, generations, wordsBuf, counts, out, err,
                   exitcode, origin, fileRead, steps, sigint, pair>>

\* Line 166.
play_sleep ==
    /\ pc = "sleep"
    /\ pc' = "count"
    /\ UNCHANGED <<config, dim, grid, res, i, generations, wordsBuf, counts, frames, screen,
                   out, err, exitcode, origin, fileRead, steps, sigint, pair>>

\* Line 167.
play_count ==
    /\ pc = "count"
    /\ generations' = generations + 1
    /\ pc' = "check"
    /\ UNCHANGED <<config, dim, grid, res, i, wordsBuf, counts, frames, screen, out, err,
                   exitcode, origin, fileRead, steps, sigint, pair>>

\* Lines 169-170: the test of the limit and the print of the end-of-run message.
play_check ==
    /\ pc = "check"
    /\ IF iterations # 0 /\ generations > iterations
         THEN out' = Append(out, OverMsg) /\ pc' = "over"
         ELSE pc' = "sweep_begin" /\ UNCHANGED out
    /\ UNCHANGED <<config, dim, grid, res, i, generations, wordsBuf, counts, frames, screen,
                   err, exitcode, origin, fileRead, steps, sigint, pair>>

\* Line 171: sys.exit().
play_exit ==
    /\ pc = "over"
    /\ Exit(0)
    /\ UNCHANGED <<config, dim, grid, res, i, generations, wordsBuf, counts, frames, screen,
                   out, err, origin, fileRead, steps, sigint, pair>>

\* Line 136 and the start of the for loop of line 137.
sweep_begin ==
    /\ pc = "sweep_begin"
    /\ res' = <<>>
    /\ counts' = <<>>
    /\ i' = 0
    /\ pc' = "sweep"
    /\ UNCHANGED <<config, dim, grid, generations, wordsBuf, frames, screen, out, err,
                   exitcode, origin, fileRead, steps, sigint, pair>>

\* sweep_step writing the result into self.grid as well: later cells of the same
\* sweep read the new value.
sweep_step_in_place ==
    /\ pc \in {"sweep", "sweep_traceback"}
    /\ IF pc = "sweep_traceback"
         THEN /\ err' = Append(err, IndexErrorMsg)
              /\ Exit(1)
              /\ UNCHANGED <<res, i, counts, grid>>
         ELSE IF i < Len(grid)
           THEN IF CountRaises(grid, i, dim, size)
                  THEN /\ pc' = "sweep_traceback"
                       /\ UNCHANGED <<res, i, counts, grid, err, exitcode>>
                  ELSE /\ counts' = Append(counts, count_neighbors(grid, i, dim, size))
                       /\ res' = Append(res, assess_neighbors(grid, i, dim, size))
                       /\ grid' = [grid EXCEPT
                                     ![i + 1] = assess_neighbors(grid, i, dim, size)]
                       /\ i' = i + 1
                       /\ UNCHANGED <<pc, err, exitcode>>
           ELSE pc' = "replace" /\ UNCHANGED <<res, i, counts, err, exitcode, grid>>
    /\ UNCHANGED <<config, dim, generations, wordsBuf, frames, screen, out, origin,
                   fileRead, steps, sigint, pair>>

\* Lines 137-138: one round of the for loop, assess_neighbors(i) appended to res.
\* An IndexError of count_neighbors is not caught anywhere: it leaves sweep and play,
\* and at the next step the interpreter has printed the traceback, which ends with
\* the line of the exception, and the process exits with 1.
sweep_step ==
    /\ pc \in {"sweep", "sweep_traceback"}
    /\ IF pc = "sweep_traceback"
         THEN /\ err' = Append(err, IndexErrorMsg)
              /\ Exit(1)
              /\ UNCHANGED <<res, i, counts>>
         ELSE IF i < Len(grid)
           THEN IF CountRaises(grid, i, dim, size)
                  THEN /\ pc' = "sweep_traceback"
                       /\ UNCHANGED <<res, i, counts, err, exitcode>>
                  ELSE /\ counts' = Append(counts, count_neighbors(grid, i, dim, size))
                       /\ res' = Append(res, assess_neighbors(grid, i, dim, size))
                       /\ i' = i + 1
                       /\ UNCHANGED <<pc, err, exitcode>>
           ELSE pc' = "replace" /\ UNCHANGED <<res, i, counts, err, exitcode>>
    /\ UNCHANGED <<config, dim, grid, generations, wordsBuf, frames, screen, out, origin,
                   fileRead, steps, sigint, pair>>

\* play_replace leaving self.grid as it was (step 4 of the docstring forgotten).
play_replace_keep ==
    /\ pc = "replace"
    /\ grid' = grid
    /\ steps' = steps + 1
    /\ pc' = "display"
    /\ UNCHANGED <<config, dim, res, i, generations, wordsBuf, counts, frames, screen, out,
                   err, exitcode, origin, fileRead, sigint, pair>>

\* Line 174: self.grid = self.res[:]
play_replace ==
    /\ pc = "replace"
    /\ grid' = res
    /\ steps' = steps + 1
    /\ pc' = "display"
    /\ UNCHANGED <<config, dim, res, i, generations, wordsBuf, counts, frames, screen, out,
                   err, exitcode, origin, fileRead, sigint, pair>>

\* ------------------------------------------------------------------ sighandler

\* Positions at which the handler of line 180 is installed and the process runs; the
\* handler stays installed while it runs itself and while a traceback is printed.
Running == pc \in {"getopt", "except", "usage", "usage_exit", "sanity", "construct",
                   "gods_word_read", "gods_word_extend", "gods_word_append", "seed",
                   "random", "display", "display_raise", "display_traceback",
                   "display_print", "sleep", "count", "check", "over", "sweep_begin",
                   "sweep", "sweep_traceback", "replace", "sighandler_exit",
                   "sighandler_discard"}

\* Positions at which the interpreter is printing the traceback of an exception that
\* nothing caught, or runs the handler called from there.
Unwinding == {"sweep_traceback", "display_traceback", "sighandler_discard"}

\* The number of SIGINT handled so far: each one wrote its message.
Signals == Cardinality({k \in 1..Len(err) : err[k] = InterruptMsg})

\* sighandler without its sys.exit(): the message is written and the handler returns
\* to the code it interrupted.
sighandler_no_exit ==
    /\ Running
    /\ ~sigint
    /\ sigint' = TRUE
    /\ err' = Append(err, InterruptMsg)
    /\ UNCHANGED <<config, pc, exitcode, dim, grid, res, i, generations, wordsBuf, counts,
                   frames, screen, out, origin, fileRead, steps, pair>>

\* Lines 42-43: SIGINT is delivered and the handler writes its message; the code it
\* interrupted does not go on, for the handler does not return.
sighandler ==
    /\ Running
    /\ Signals < MaxSignals
    /\ sigint' = TRUE
    /\ err' = Append(err, InterruptMsg)
    /\ pc' = IF pc \in Unwinding THEN "sighandler_discard" ELSE "sighandler_exit"
    /\ UNCHANGED <<config, exitcode, dim, grid, res, i, generations, wordsBuf, counts,
                   frames, screen, out, origin, fileRead, steps, pair>>

\* Line 44: sys.exit() raises SystemExit, which no except clause of the script catches
\* (they catch Exception), so the process exits with 0.  Raised while a traceback is
\* printed, the SystemExit is dropped together with the rest of the traceback (the
\* line of the exception is not written) and the process exits with the status 1 of
\* the exception that nothing caught.
sighandler_exit ==
    /\ pc \in {"sighandler_exit", "sighandler_discard"}
    /\ Exit(IF pc = "sighandler_discard" THEN 1 ELSE 0)
    /\ UNCHANGED <<config, err, dim, grid, res, i, generations, wordsBuf, counts,
                   frames, screen, out, origin, fileRead, steps, sigint, pair>>

\* ------------------------------------------------------------------ specifications

\* The steps of the interpreter, which runs on as long as the process lives.
Program ==
    \/ main_signal
    \/ main_getopt
    \/ main_except
    \/ usage_write
    \/ usage_exit
    \/ main_sanity
    \/ GameOfLife_init
    \/ gods_word_read
    \/ gods_word_extend
    \/ gods_word_append
    \/ initialize_seed
    \/ initialize_random
    \/ play_display
    \/ display_print
    \/ play_sleep
    \/ play_count
    \/ play_check
    \/ play_exit
    \/ sweep_begin
    \/ sweep_step
    \/ play_replace
    \/ sighandler_exit

Next == Program \/ sighandler

Spec == Init /\ [][Next]_vars

\* ------------------------------------------------------------------ one sweep of a square grid

\* A game on a square grid of side 1..MaxDim holding any cells, about to sweep it.
PureInit ==
    /\ args = "ok"
    /\ \E d \in 1..MaxDim : size = d * d
    /\ iterations = 0
    /\ god = FALSE
    /\ words = <<97>>
    /\ pc = "pure"
    /\ dim = ISqrt(size)
    /\ grid \in [1..size -> BOOLEAN]
    /\ res = <<>>
    /\ i = 0
    /\ generations = 0
    /\ wordsBuf = <<>>
    /\ counts = <<>>
    /\ frames = <<>>
    /\ screen = <<>>
    /\ out = <<>>
    /\ err = <<>>
    /\ exitcode = <<>>
    /\ origin = [k \in 1..size |-> "random"]
    /\ fileRead = FALSE
    /\ steps = 0
    /\ sigint = FALSE
    /\ run = 1
    /\ prevInit = <<>>

\* Lines 135-138: the whole of sweep, assess_neighbors called for every index.  An
\* IndexError of count_neighbors leaves sweep with the results of the cells before
\* and nothing catches it.
sweep ==
    /\ pc = "pure"
    /\ LET bad == {idx \in 0..(Len(grid) - 1) : CountRaises(grid, idx, dim, size)}
           n == IF bad = {} THEN Len(grid)
                ELSE CHOOSE idx \in bad : \A other \in bad : idx <= other
       IN  /\ counts' = [k \in 1..n |-> count_neighbors(grid, k - 1, dim, size)]
           /\ res' = [k \in 1..n |-> assess_neighbors(grid, k - 1, dim, size)]
           /\ i' = n
           /\ pc' = IF bad # {} THEN "sweep_traceback" ELSE "pure_done"
    /\ UNCHANGED <<err, exitcode>>
    /\ UNCHANGED <<config, dim, grid, generations, wordsBuf, frames, screen, out, origin,
                   fileRead, steps, sigint, pair>>

PureNext == sweep

PureSpec == PureInit /\ [][PureNext]_vars

\* ------------------------------------------------------------------ games started from a pattern

\* The list index (from 1) of the cell in row r, column c of a grid of side d.
CellAt(d, r, c) == r * d + c + 1

\* The grid of side d whose alive cells are those of the set `alive`.
GridOf(d, alive) == [k \in 1..(d * d) |-> k \in alive]

AllDead(d) == GridOf(d, {})
AllAlive(d) == GridOf(d, 1..(d * d))

\* The 2 x 2 block whose top left cell is (r, c).
Block(d, r, c) == GridOf(d, {CellAt(d, r + a, c + b) : a \in 0..1, b \in 0..1})

\* The horizontal and the vertical line of three cells whose middle cell is (r, c).
BlinkerH(d, r, c) == GridOf(d, {CellAt(d, r, c + b) : b \in -1..1})
BlinkerV(d, r, c) == GridOf(d, {CellAt(d, r + a, c) : a \in -1..1})

\* The placements that leave a dead margin on every side of the block, and of both
\* lines of the blinker.
BlockPlaces(d) == (1..(d - 3)) \X (1..(d - 3))
BlinkerPlaces(d) == (2..(d - 3)) \X (2..(d - 3))

Patterns(d) ==
    {AllDead(d), AllAlive(d)}
    \cup {Block(d, p[1], p[2]) : p \in BlockPlaces(d)}
    \cup {BlinkerH(d, p[1], p[2]) : p \in BlinkerPlaces(d)}

\* A game, with or without iteration limit, whose initialize has just returned with
\* a pattern drawn by the random loop on a square grid.
PatternInit ==
    /\ args = "ok"
    /\ \E d \in 1..MaxPatternDim : size = d * d
    /\ iterations \in {0, MaxIter}
    /\ god = FALSE
    /\ words = <<97>>
    /\ pc = "display"
    /\ dim = ISqrt(size)
    /\ grid \in Patterns(dim)
    /\ res = <<>>
    /\ i = size
    /\ generations = 0
    /\ wordsBuf = <<>>
    /\ counts = <<>>
    /\ frames = <<>>
    /\ screen = <<>>
    /\ out = <<>>
    /\ err = <<>>
    /\ exitcode = <<>>
    /\ origin = [k \in 1..size |-> "random"]
    /\ fileRead = FALSE
    /\ steps = 0
    /\ sigint = FALSE
    /\ run = 1
    /\ prevInit = grid

\* The body of the while loop of play.
Loop ==
    \/ play_display
    \/ display_print
    \/ play_sleep
    \/ play_count
    \/ play_check
    \/ play_exit
    \/ sweep_begin
    \/ sweep_step
    \/ play_replace

PatternNext == Loop \/ sighandler \/ sighandler_exit

PatternSpec == PatternInit /\ [][PatternNext]_vars

\* ------------------------------------------------------------------ two runs of the script

\* The script is run again with the same command line and the same ./gods_word once
\* initialize has returned in the first run; the first run's grid is kept for comparison.
second_run ==
    /\ run = 1
    /\ pc = "display"
    /\ frames = <<>>
    /\ screen = <<>>
    /\ prevInit' = prevInit
    /\ run' = 2
    /\ pc' = "main"
    /\ dim' = 0
    /\ grid' = <<>>
    /\ res' = <<>>
    /\ i' = 0
    /\ generations' = 0
    /\ wordsBuf' = <<>>
    /\ counts' = <<>>
    /\ frames' = <<>>
    /\ screen' = <<>>
    /\ out' = <<>>
    /\ err' = <<>>
    /\ exitcode' = <<>>
    /\ origin' = <<>>
    /\ fileRead' = FALSE
    /\ steps' = 0
    /\ sigint' = FALSE
    /\ UNCHANGED config

PairInit ==
    /\ args \in ArgKinds
    /\ size \in 1..MaxPairSize
    /\ iterations = 1
    /\ god = TRUE
    /\ words \in SeqsUpTo(Bytes, MaxWords)
    /\ ProcessStart
    /\ run = 1
    /\ prevInit = <<>>

PairNext == Next \/ second_run

PairSpec == PairInit /\ [][PairNext]_vars

\* ------------------------------------------------------------------ two games in one process

\* GameOfLife.grid, the list of the class body (line 48): initialize appends to it
\* through self.grid, and line 174 binds an attribute of the instance instead, so the
\* class keeps the cells appended by initialize.
ClassGrid == IF steps = 0 THEN grid ELSE prevInit

\* The caller catches the SystemExit that ended play and constructs a second
\* GameOfLife with the same opts (lines 54-59): its self.grid and self.res are the
\* class attributes.  The histories restart with the instance.
second_instance ==
    /\ run = 1
    /\ pc = "exited"
    /\ exitcode = <<0>>
    /\ frames # <<>>
    /\ run' = 2
    /\ pc' = "construct"
    /\ exitcode' = <<>>
    /\ grid' = ClassGrid
    /\ res' = <<>>
    /\ dim' = 0
    /\ i' = 0
    /\ generations' = 0
    /\ wordsBuf' = <<>>
    /\ counts' = <<>>
    /\ frames' = <<>>
    /\ screen' = <<>>
    /\ steps' = 0
    /\ origin' = <<>>
    /\ fileRead' = FALSE
    /\ UNCHANGED <<config, out, err, sigint, prevInit>>

InstanceInit ==
    /\ args \in ArgKinds
    /\ size \in 1..MaxInstanceSize
    /\ iterations = 1
    /\ god \in BOOLEAN
    /\ words \in (IF god THEN SeqsUpTo(Bytes, MaxInstanceWords) ELSE {<<97>>})
    /\ ProcessStart
    /\ run = 1
    /\ prevInit = <<>>

InstanceNext == Next \/ second_instance

InstanceSpec == InstanceInit /\ [][InstanceNext]_vars

\* ------------------------------------------------------------------ properties

Has(s, m) == \E k \in 1..Len(s) : s[k] = m

\* initialize has returned and play has not displayed anything yet.
LoopEntered == pc = "display" /\ frames = <<>>

\* The alive cells among the in-grid positions (row + dr, col + dc) around idx.
AliveAround(g, d, idx) ==
    LET row == idx \div d
        col == idx % d
    IN  {rc \in (-1..1) \X (-1..1) :
            /\ rc # <<0, 0>>
            /\ row + rc[1] \in 0..(d - 1)
            /\ col + rc[2] \in 0..(d - 1)
            /\ g[(row + rc[1]) * d + (col + rc[2]) + 1]}

\* C1: on a square grid, count_neighbors(idx) returns for every idx, and the number of
\* True in its list lies in 0..8 and is the number of alive cells among the in-grid
\* positions around idx; nothing beyond an edge or across it is counted.
C1_NeighborCount ==
    /\ pc # "sweep_traceback"
    /\ pc = "pure_done" =>
         /\ Len(counts) = size
         /\ \A idx \in 0..(size - 1) :
              /\ CountTrue(counts[idx + 1]) \in 0..8
              /\ CountTrue(counts[idx + 1]) = Cardinality(AliveAround(grid, dim, idx))

\* A 3 x 3 grid whose only alive cell ends the top row: the cell that starts the
\* middle row (its predecessor in the list) has been counted and has no neighbour.
C1_Witness ==
    /\ pc = "pure_done"
    /\ dim = 3
    /\ grid = <<FALSE, FALSE, TRUE, FALSE, FALSE, FALSE, FALSE, FALSE, FALSE>>
    /\ CountTrue(counts[4]) = 0
    /\ CountTrue(counts[5]) = 1

\* C2: assess_neighbors returns alive exactly when the cell is alive with 2 or 3 alive
\* neighbours or dead with exactly 3, for every cell state and count.
C2_Rules ==
    pc = "pure_done" =>
        \A k \in 1..Len(grid) :
            LET c == CountTrue(counts[k])
            IN  res[k] = ((grid[k] /\ c \in {2, 3}) \/ (~grid[k] /\ c = 3))

\* A 3 x 3 grid in which the dead centre has exactly three alive neighbours and comes
\* to life, while an alive corner with a single neighbour dies.
C2_Witness ==
    /\ pc = "pure_done"
    /\ dim = 3
    /\ ~grid[5]
    /\ CountTrue(counts[5]) = 3
    /\ res[5]
    /\ grid[1]
    /\ CountTrue(counts[1]) = 1
    /\ ~res[1]

\* The grid one step makes of g.
StepOf(g) == [k \in 1..Len(g) |-> assess_neighbors(g, k - 1, dim, size)]

\* C3: self.grid is not written while a sweep runs, and the replacement of line 174
\* installs a grid of the same length whose every cell is the rule result computed
\* from the grid as it was before the step.
C3_StepReadsOldGrid ==
    [][ /\ pc \in {"sweep_begin", "sweep"} => grid' = grid
        /\ (pc = "replace" /\ pc' = "display") =>
              (Len(grid') = Len(grid) /\ grid' = StepOf(grid)) ]_vars

\* A 2 x 2 grid of random cells T T T F has been stepped: the dead cell came to life.
C3_Witness ==
    /\ steps = 1
    /\ ~god
    /\ size = 4
    /\ frames[1].rows = << <<"*", "*">>, <<"*", ".">> >>
    /\ grid = <<TRUE, TRUE, TRUE, TRUE>>

\* The run has ended by the iteration limit: N + 1 frames, N steps, the end-of-run
\* message, status 0.
NormalEnd ==
    /\ pc = "exited"
    /\ exitcode = <<0>>
    /\ ~sigint
    /\ Has(out, OverMsg)
    /\ Len(frames) = iterations + 1
    /\ screen = <<>>
    /\ steps = iterations
    /\ generations = iterations + 1

\* C4: a run with an iteration limit N >= 1 that no interrupt ends, ends normally:
\* when the process has exited it has rendered N + 1 frames, computed N steps,
\* printed the end-of-run message and exited with status 0.
C4_EndsNormally ==
    (args = "ok" /\ iterations >= 1 /\ pc = "exited" /\ ~sigint) => NormalEnd

\* C5: a size without an integer square root is rejected: the problem is reported
\* (unless SIGINT ends the process before) and no grid is initialised, no frame
\* rendered, no step computed.
C5_RejectsNonSquare ==
    (args = "ok" /\ ~HasIntegerRoot(size)) =>
        /\ (pc \notin {"main", "getopt", "sanity"} /\ ~sigint) => Has(err, RootMsg)
        /\ grid = <<>>
        /\ frames = <<>>
        /\ screen = <<>>
        /\ steps = 0

\* C6: once SIGINT is delivered the message is on stderr and the process is about to
\* exit from the handler or has exited; the interrupted code takes no further step,
\* and no frame is rendered and no grid replaced afterwards.
C6_InterruptStops ==
    /\ [](sigint => (pc \in {"sighandler_exit", "sighandler_discard", "exited"}
                     /\ Has(err, InterruptMsg)))
    /\ [][(pc \in {"sighandler_exit", "sighandler_discard"}) =>
            (pc' \in {"sighandler_exit", "sighandler_discard", "exited"})]_vars
    /\ [][sigint => (frames' = frames /\ screen' = screen /\ grid' = grid
                      /\ steps' = steps)]_vars

\* Interrupted in the middle of a sweep, after at least one frame.
C6_Witness ==
    /\ sigint
    /\ pc = "exited"
    /\ Len(frames) >= 1
    /\ Len(res) > 0
    /\ Len(res) < Len(grid)

\* C7: a run ended by the interrupt exits with a status other than 0.
C7_InterruptStatus == (pc = "exited" /\ sigint) => exitcode # <<0>>

\* C8: when initialize has returned the grid holds exactly size cells, all from the
\* byte source in word-seed mode, all from random draws (the file unread) otherwise.
C8_OneMode ==
    LoopEntered =>
        /\ Len(grid) = size
        /\ god => (fileRead /\ \A k \in 1..Len(origin) : origin[k] = "word")
        /\ ~god => (~fileRead /\ \A k \in 1..Len(origin) : origin[k] = "random")

\* C9: a second word-seed run with the same byte source and size ends initialize with
\* the grid the first run ended it with.
C9_SameInitialGrid == (run = 2 /\ god /\ LoopEntered) => grid = prevInit

\* C10: in word-seed mode with a non-empty source of length L, the cell appended for
\* position k is alive iff byte k mod L of the source is odd, and exactly the
\* positions 0..size-1 are appended.
C10_CyclicParity ==
    (god /\ words # <<>> /\ steps = 0) =>
        /\ \A k \in 1..Len(origin) :
              origin[k] = "word" =>
                  /\ k <= size
                  /\ grid[k] = (words[((k - 1) % Len(words)) + 1] % 2 = 1)
        /\ pc = "seed" => (Len(grid) = size /\ \A k \in 1..size : origin[k] = "word")

\* A source of two bytes doubled twice to fill five cells.
C10_Witness ==
    /\ pc = "seed"
    /\ size = 5
    /\ words = <<97, 98>>
    /\ Len(wordsBuf) = 8
    /\ grid = <<TRUE, FALSE, TRUE, FALSE, TRUE>>

\* C11: a horizontal blinker with dead margins is the vertical line through the same
\* centre after one step and the horizontal line again after two (and so on).
C11_Blinker ==
    \A p \in BlinkerPlaces(dim) :
        prevInit = BlinkerH(dim, p[1], p[2]) =>
            /\ steps \in {1, 3} => grid = BlinkerV(dim, p[1], p[2])
            /\ steps \in {0, 2} => grid = BlinkerH(dim, p[1], p[2])

\* The centred blinker of the 5 x 5 grid is back after two steps, the second frame
\* having shown the vertical line.
C11_Witness ==
    /\ dim = 5
    /\ steps = 2
    /\ prevInit = BlinkerH(5, 2, 2)
    /\ grid = BlinkerH(5, 2, 2)
    /\ Len(frames) >= 2
    /\ frames[2] = Frame(BlinkerV(5, 2, 2), 5, 25)

\* C12: a 2 x 2 block with a dead margin on every side is unchanged by a step, for
\* every such placement.
C12_StillLife ==
    \A p \in BlockPlaces(dim) :
        prevInit = Block(dim, p[1], p[2]) => grid = prevInit

\* The block in the middle of the 4 x 4 grid after a step.
C12_Witness ==
    /\ dim = 4
    /\ steps = 1
    /\ prevInit = Block(4, 1, 1)
    /\ grid = Block(4, 1, 1)

IsAllDead(g) == \A k \in 1..Len(g) : ~g[k]

\* C13: a grid whose every cell is dead has every cell dead after any step of the
\* program, so an all-dead grid stays all-dead.
C13_Extinction == [][IsAllDead(grid) => IsAllDead(grid')]_vars

\* The all-dead 5 x 5 grid after two steps.
C13_Witness ==
    /\ dim = 5
    /\ steps = 2
    /\ IsAllDead(prevInit)
    /\ IsAllDead(grid)

\* C14: one step of the fully alive 3 x 3 grid leaves exactly the four corners alive.
C14_Overpopulation ==
    (prevInit = AllAlive(3) /\ steps = 1) => grid = GridOf(3, {1, 3, 7, 9})

C14_Witness ==
    /\ prevInit = AllAlive(3)
    /\ steps = 1
    /\ grid = <<TRUE, FALSE, TRUE, FALSE, FALSE, FALSE, TRUE, FALSE, TRUE>>

\* With bad arguments the script never gets past the parsing of the options, so no
\* grid is initialised, no frame rendered and no step computed.
NothingStarted ==
    /\ pc \in {"main", "getopt", "except", "usage", "usage_exit", "sighandler_exit",
               "exited"}
    /\ grid = <<>>
    /\ frames = <<>>
    /\ screen = <<>>
    /\ steps = 0

\* C15 as stated: with -h, an unknown flag or an unparseable value the script writes
\* the usage message to stderr and exits with a non-zero status, no grid initialised
\* and no frame rendered.
C15_UsageExit ==
    args # "ok" =>
        /\ NothingStarted
        /\ pc = "exited" => (Has(err, UsageMsg) /\ exitcode # <<>> /\ exitcode # <<0>>)

\* C15 as amended: the same unless SIGINT ends the process first; whether or not it
\* does, no grid is initialised and no frame rendered, and without it the usage
\* message is the last thing written to stderr and the status is 1.
C15_UsageExitUnlessInterrupted ==
    args # "ok" =>
        /\ NothingStarted
        /\ (pc = "exited" /\ ~sigint) =>
              (err # <<>> /\ err[Len(err)] = UsageMsg /\ exitcode = <<1>>)

C15_Witness ==
    /\ args = "badvalue"
    /\ pc = "exited"
    /\ ~sigint
    /\ err = <<ValueErrorMsg, UsageMsg>>
    /\ exitcode = <<1>>

RECURSIVE StepN(_, _)
\* The grid n steps make of g.
StepN(g, n) == IF n = 0 THEN g ELSE StepOf(StepN(g, n - 1))

LoopOrder ==
    { <<"display", "display_print">>, <<"display_print", "sleep">>,
      <<"sleep", "count">>, <<"count", "check">>,
      <<"check", "sweep_begin">>, <<"sweep_begin", "sweep">>, <<"sweep", "replace">>,
      <<"replace", "display">> }

\* C16: the loop goes render, wait, increment, check, step, replace and round again;
\* a frame is rendered before every step, and the frame added after k earlier ones
\* shows the grid initialize returned advanced by k steps.
C16_LoopOrder ==
    /\ [][(pc \in {"display", "display_print", "sleep", "count", "check", "sweep_begin",
                   "sweep", "replace"}
            /\ pc' \notin {pc, "over", "sweep_traceback", "sighandler_exit", "exited"})
              => <<pc, pc'>> \in LoopOrder]_vars
    /\ [][(pc = "display_print" /\ pc' = "sleep") => Len(frames') = Len(frames) + 1]_vars
    /\ [][(pc = "count" /\ pc' = "check") => generations' = generations + 1]_vars
    /\ [](steps <= Len(frames) /\ Len(frames) <= steps + 1)
    /\ [][frames' # frames =>
            frames' = Append(frames, Frame(StepN(prevInit, Len(frames)), dim, size))]_vars

\* The third frame of a 2 x 2 game shows a grid that differs from the first one.
C16_Witness ==
    /\ size = 4
    /\ ~god
    /\ Len(frames) = 3
    /\ steps = 2
    /\ frames[1] # frames[2]
    /\ frames[3] = Frame(grid, dim, size)

\* C17: every subscript of self.grid evaluated by count_neighbors and by display lies
\* in 0..len(grid)-1, whatever the size and the mode.
C17_ReadsInRange ==
    /\ (pc = "sweep" /\ i < Len(grid)) =>
          \A j \in 1..8 :
              LET s == NeighborReads(i, dim, size)[j]
              IN  s.read => (0 <= s.at /\ s.at < Len(grid))
    /\ pc = "display" => \A k \in 0..(size - 1) : k < Len(grid)

\* The cells the cyclic repetition of the byte source w gives a grid of sz cells.
WordCells(w, sz) == [k \in 1..sz |-> w[((k - 1) % Len(w)) + 1] % 2 = 1]

\* C18: in word-seed mode on a square grid the frame rendered after k earlier ones
\* shows the cells given by the byte source advanced by k steps as a grid of size
\* cells: the rendered frames are a function of the byte source and the size,
\* whatever the random loop appended.
C18_FramesFromWords ==
    [][(god /\ HasIntegerRoot(size) /\ words # <<>> /\ frames' # frames) =>
          frames' = Append(frames,
                           Frame(StepN(WordCells(words, size), Len(frames)), dim, size))]_vars

\* A 2 x 2 word-seed game whose random cells next to the last row are alive and whose
\* second frame shows the word cells T F T F all dead after one step.
C18_Witness ==
    /\ god
    /\ size = 4
    /\ words = <<97, 98>>
    /\ Len(prevInit) = 8
    /\ prevInit[5]
    /\ prevInit[6]
    /\ Len(frames) >= 2
    /\ frames[2].rows = << <<".", ".">>, <<".", ".">> >>

\* C19: word-seed initialisation ends: at each of its positions the interpreter's next
\* step changes the state (the loop that extends the content makes it longer or is
\* left), so no position is repeated for ever.
C19_WordSeedInitEnds ==
    pc \in {"gods_word_read", "gods_word_extend", "gods_word_append"} =>
        ENABLED <<Program>>_vars

\* C20: when initialize has returned in a second GameOfLife of the same process, its
\* grid holds the cells its own initialize appended and no others.
C20_NoLeak == (run = 2 /\ LoopEntered) => Len(grid) = Len(origin)

====
